---- MODULE Spec2Model ----
(***************************************************************************)
(* Result-based validation pipeline of try-catch-sucks (src/neverthrow.ts,  *)
(* src/errors.ts, src/errors-as-values.ts).                                 *)
(*                                                                          *)
(* A JavaScript string is a sequence of one-character strings, so that      *)
(* includes(), toLowerCase() and trim() are computed character by           *)
(* character.  A neverthrow Result is a record: ok(v) is                    *)
(* [ok |-> TRUE, value |-> v] and err(e) is [ok |-> FALSE, error |-> e].    *)
(* An Error object is the record of its name and its message.               *)
(***************************************************************************)
EXTENDS Integers, Sequences, FiniteSets, TLC

(***************************************************************************)
(* Bounds of the input sets.                                                *)
(***************************************************************************)
MaxEmailLen == 3

MaxPad == 7

MaxTail == 2

AgeSlack == 1

MaxConsole == 1

MaxLog == 2

(***************************************************************************)
(* Program constants.                                                       *)
(***************************************************************************)
MinPasswordLength == 8

MinAge == 13

MaxAge == 120

(***************************************************************************)
(* String literals of the source, as character sequences.                   *)
(***************************************************************************)
S_MissingAtSymbol ==
    <<"M", "i", "s", "s", "i", "n", "g", " ", "@", " ", "s", "y", "m", "b", "o", "l">>

S_MissingDomain ==
    <<"M", "i", "s", "s", "i", "n", "g", " ", "d", "o", "m", "a", "i", "n">>

S_TooShort ==
    <<"T", "o", "o", " ", "s", "h", "o", "r", "t">>

S_MissingUppercase ==
    <<"M", "i", "s", "s", "i", "n", "g", " ", "u", "p", "p", "e", "r", "c", "a", "s", "e">>

S_MissingNumber ==
    <<"M", "i", "s", "s", "i", "n", "g", " ", "n", "u", "m", "b", "e", "r">>

S_Must13 ==
    <<"M", "u", "s", "t", " ", "b", "e", " ", "1", "3", " ", "o", "r", " ", "o", "l", "d", "e", "r">>

S_InvalidAge ==
    <<"I", "n", "v", "a", "l", "i", "d", " ", "a", "g", "e">>

S_EmailPrefix ==
    <<"E", "m", "a", "i", "l", " ", "v", "a", "l", "i", "d", "a", "t", "i", "o", "n", " ", "f", "a", "i", "l", "e", "d", ":", " ">>

S_PasswordPrefix ==
    <<"P", "a", "s", "s", "w", "o", "r", "d", " ", "v", "a", "l", "i", "d", "a", "t", "i", "o", "n", " ", "f", "a", "i", "l", "e", "d", ":", " ">>

S_AgePrefix ==
    <<"A", "g", "e", " ", "v", "a", "l", "i", "d", "a", "t", "i", "o", "n", " ", "f", "a", "i", "l", "e", "d", ":", " ">>

S_DuplicatePrefix ==
    <<"E", "m", "a", "i", "l", " ", "a", "l", "r", "e", "a", "d", "y", " ", "r", "e", "g", "i", "s", "t", "e", "r", "e", "d", ":", " ">>

S_existing ==
    <<"e", "x", "i", "s", "t", "i", "n", "g">>

(***************************************************************************)
(* Characters: /[A-Z]/, /[0-9]/, the white space String.prototype.trim      *)
(* strips, and String.prototype.toLowerCase on ASCII letters.               *)
(***************************************************************************)
UpperChars ==
    {"A", "B", "C", "D", "E", "F", "G", "H", "I", "J", "K", "L", "M",
     "N", "O", "P", "Q", "R", "S", "T", "U", "V", "W", "X", "Y", "Z"}

Digits ==
    {"0", "1", "2", "3", "4", "5", "6", "7", "8", "9"}

WhiteSpace ==
    {" ", "\t", "\n", "\r"}

LowerOf ==
    "A" :> "a" @@ "B" :> "b" @@ "C" :> "c" @@ "D" :> "d" @@ "E" :> "e" @@
    "F" :> "f" @@ "G" :> "g" @@ "H" :> "h" @@ "I" :> "i" @@ "J" :> "j" @@
    "K" :> "k" @@ "L" :> "l" @@ "M" :> "m" @@ "N" :> "n" @@ "O" :> "o" @@
    "P" :> "p" @@ "Q" :> "q" @@ "R" :> "r" @@ "S" :> "s" @@ "T" :> "t" @@
    "U" :> "u" @@ "V" :> "v" @@ "W" :> "w" @@ "X" :> "x" @@ "Y" :> "y" @@
    "Z" :> "z"

\* String.prototype.includes
includes(s, sub) ==
    \E i \in 0..(Len(s) - Len(sub)) : SubSeq(s, i + 1, i + Len(sub)) = sub

\* String.prototype.toLowerCase
toLowerCase(s) ==
    [i \in 1..Len(s) |-> IF s[i] \in UpperChars THEN LowerOf[s[i]] ELSE s[i]]

\* String.prototype.trim
trim(s) ==
    LET keep == {i \in 1..Len(s) : s[i] \notin WhiteSpace}
    IN  IF keep = {} THEN <<>>
        ELSE SubSeq(s, CHOOSE i \in keep : \A j \in keep : i <= j,
                       CHOOSE i \in keep : \A j \in keep : j <= i)

\* /[A-Z]/.test
hasUpper(s) ==
    \E i \in 1..Len(s) : s[i] \in UpperChars

\* /[0-9]/.test
hasDigit(s) ==
    \E i \in 1..Len(s) : s[i] \in Digits

(***************************************************************************)
(* errors.ts: every error class prefixes the message it is given.           *)
(***************************************************************************)
EmailValidationError(message) ==
    [name |-> "EmailValidationError", message |-> S_EmailPrefix \o message]

PasswordValidationError(message) ==
    [name |-> "PasswordValidationError", message |-> S_PasswordPrefix \o message]

AgeValidationError(message) ==
    [name |-> "AgeValidationError", message |-> S_AgePrefix \o message]

DuplicateEmailError(email) ==
    [name |-> "DuplicateEmailError", message |-> S_DuplicatePrefix \o email]

(***************************************************************************)
(* neverthrow Result: ok, err, isOk/isErr.                                  *)
(***************************************************************************)
ok(value) ==
    [ok |-> TRUE, value |-> value]

err(error) ==
    [ok |-> FALSE, error |-> error]

\* A Result is an Ok holding a value or an Err holding an error; what a
\* function throws is not one.
IsResult(r) ==
    \/ DOMAIN r = {"ok", "value"} /\ r.ok = TRUE
    \/ DOMAIN r = {"ok", "error"} /\ r.ok = FALSE

isOk(r) ==
    r.ok

isErr(r) ==
    ~r.ok

(***************************************************************************)
(* An evaluation is the Result an expression produces together with the     *)
(* validators and callbacks it invoked, in invocation order.  call(name, r)  *)
(* is the evaluation of one validator call, received(r) that of a Result    *)
(* computed earlier.  A callback is a function on the type of its argument. *)
(* map and andThen invoke their callback only on an Ok receiver and         *)
(* otherwise return the receiver itself.                                    *)
(***************************************************************************)
String ==
    Seq(STRING)

Number ==
    Int

UserPayload ==
    [email : String, password : String, age : Number]

call(name, r) ==
    [result |-> r, calls |-> <<name>>]

received(r) ==
    [result |-> r, calls |-> <<>>]

map(ev, f) ==
    IF isOk(ev.result)
    THEN [result |-> ok(f[ev.result.value]),
          calls |-> ev.calls \o <<"map callback">>]
    ELSE ev

\* Mutant: the callback is entered on an Err receiver too.
andThen_alwaysCalls(ev, f) ==
    IF isOk(ev.result)
    THEN LET next == f[ev.result.value]
         IN  [result |-> next.result,
              calls |-> ev.calls \o <<"andThen callback">> \o next.calls]
    ELSE [result |-> ev.result, calls |-> ev.calls \o <<"andThen callback">>]

andThen(ev, f) ==
    IF isOk(ev.result)
    THEN LET next == f[ev.result.value]
         IN  [result |-> next.result,
              calls |-> ev.calls \o <<"andThen callback">> \o next.calls]
    ELSE ev

mapErr(ev, f) ==
    IF isErr(ev.result)
    THEN [result |-> err(f[ev.result.error]),
          calls |-> ev.calls \o <<"mapErr callback">>]
    ELSE ev

(***************************************************************************)
(* neverthrow.ts 4.1: the validators.                                       *)
(***************************************************************************)
\* Mutant: the '.' check comes before the '@' check.
validateEmail_NeverThrow_dotFirst(email) ==
    IF ~includes(email, <<".">>)
    THEN err(EmailValidationError(S_MissingDomain))
    ELSE IF ~includes(email, <<"@">>)
    THEN err(EmailValidationError(S_MissingAtSymbol))
    ELSE ok(trim(toLowerCase(email)))

\* Mutant: the '.' check is missing.
validateEmail_NeverThrow_noDomainCheck(email) ==
    IF ~includes(email, <<"@">>)
    THEN err(EmailValidationError(S_MissingAtSymbol))
    ELSE ok(trim(toLowerCase(email)))

\* Mutant: the accepted email is lowercased but not trimmed.
validateEmail_NeverThrow_noTrim(email) ==
    IF ~includes(email, <<"@">>)
    THEN err(EmailValidationError(S_MissingAtSymbol))
    ELSE IF ~includes(email, <<".">>)
    THEN err(EmailValidationError(S_MissingDomain))
    ELSE ok(toLowerCase(email))

\* Mutant: only one white-space character is stripped from each end.
validateEmail_NeverThrow_trimOne(email) ==
    IF ~includes(email, <<"@">>)
    THEN err(EmailValidationError(S_MissingAtSymbol))
    ELSE IF ~includes(email, <<".">>)
    THEN err(EmailValidationError(S_MissingDomain))
    ELSE LET l == toLowerCase(email)
             a == IF Len(l) > 0 /\ l[1] \in WhiteSpace
                  THEN SubSeq(l, 2, Len(l)) ELSE l
             b == IF Len(a) > 0 /\ a[Len(a)] \in WhiteSpace
                  THEN SubSeq(a, 1, Len(a) - 1) ELSE a
         IN  ok(b)

validateEmail_NeverThrow(email) ==
    IF ~includes(email, <<"@">>)
    THEN err(EmailValidationError(S_MissingAtSymbol))
    ELSE IF ~includes(email, <<".">>)
    THEN err(EmailValidationError(S_MissingDomain))
    ELSE ok(trim(toLowerCase(email)))

\* Mutant: the uppercase rule is applied before the length rule.
validatePassword_NeverThrow_upperFirst(password) ==
    IF ~hasUpper(password)
    THEN err(PasswordValidationError(S_MissingUppercase))
    ELSE IF Len(password) < MinPasswordLength
    THEN err(PasswordValidationError(S_TooShort))
    ELSE IF ~hasDigit(password)
    THEN err(PasswordValidationError(S_MissingNumber))
    ELSE ok(password)

validatePassword_NeverThrow(password) ==
    IF Len(password) < MinPasswordLength
    THEN err(PasswordValidationError(S_TooShort))
    ELSE IF ~hasUpper(password)
    THEN err(PasswordValidationError(S_MissingUppercase))
    ELSE IF ~hasDigit(password)
    THEN err(PasswordValidationError(S_MissingNumber))
    ELSE ok(password)

\* Mutant: both comparisons are off by one (<= and >=).
validateAge_NeverThrow_offByOne(age) ==
    IF age <= MinAge
    THEN err(AgeValidationError(S_Must13))
    ELSE IF age >= MaxAge
    THEN err(AgeValidationError(S_InvalidAge))
    ELSE ok(age)

validateAge_NeverThrow(age) ==
    IF age < MinAge
    THEN err(AgeValidationError(S_Must13))
    ELSE IF age > MaxAge
    THEN err(AgeValidationError(S_InvalidAge))
    ELSE ok(age)

(***************************************************************************)
(* neverthrow.ts 4.3: the evaluation of createUserPayload's andThen chain   *)
(* (its Result and the validators it invoked) and the line it prints.       *)
(***************************************************************************)
\* Mutant: the chain starts with the password instead of the email.
createUserPayload_passwordFirst(email, password, age) ==
    andThen(
        andThen(call("validatePassword_NeverThrow",
                     validatePassword_NeverThrow(password)),
                [validPassword \in String |->
                    map(call("validateEmail_NeverThrow",
                             validateEmail_NeverThrow(email)),
                        [validEmail \in String |->
                            [email |-> validEmail,
                             password |-> validPassword,
                             age |-> age]])]),
        [partial \in UserPayload |->
            map(call("validateAge_NeverThrow", validateAge_NeverThrow(partial.age)),
                [validAge \in Number |-> [partial EXCEPT !.age = validAge]])])

\* Mutant: the age step of the chain is missing.
createUserPayload_skipAge(email, password, age) ==
    andThen(call("validateEmail_NeverThrow", validateEmail_NeverThrow(email)),
            [validEmail \in String |->
                map(call("validatePassword_NeverThrow",
                         validatePassword_NeverThrow(password)),
                    [validPassword \in String |->
                        [email |-> validEmail,
                         password |-> validPassword,
                         age |-> age]])])

createUserPayload(email, password, age) ==
    andThen(
        andThen(call("validateEmail_NeverThrow", validateEmail_NeverThrow(email)),
                [validEmail \in String |->
                    map(call("validatePassword_NeverThrow",
                             validatePassword_NeverThrow(password)),
                        [validPassword \in String |->
                            [email |-> validEmail,
                             password |-> validPassword,
                             age |-> age]])]),
        [partial \in UserPayload |->
            map(call("validateAge_NeverThrow", validateAge_NeverThrow(partial.age)),
                [validAge \in Number |-> [partial EXCEPT !.age = validAge]])])

\* Mutant: the chain is built without narration.
createUserPayload_log_silent ==
    <<>>

createUserPayload_log ==
    <<"--- 4.3: Chaining with andThen() ---">>

(***************************************************************************)
(* neverthrow.ts 4.4: the simulated lookup.                                 *)
(***************************************************************************)
checkEmailExists(email) ==
    includes(email, S_existing)

findUserByEmail(email) ==
    IF checkEmailExists(email) THEN err(DuplicateEmailError(email)) ELSE ok(email)

(***************************************************************************)
(* errors-as-values.ts 5.1: processUserInput evaluates the three validators *)
(* first and then chains the Results.                                       *)
(***************************************************************************)
\* Mutant: the pipeline reports a password failure before an email failure.
processUserInput_passwordFirst(email, password, age) ==
    createUserPayload_passwordFirst(email, password, age)

processUserInput(email, password, age) ==
    LET emailResult == call("validateEmail_NeverThrow",
                            validateEmail_NeverThrow(email))
        passwordResult == call("validatePassword_NeverThrow",
                               validatePassword_NeverThrow(password))
        ageResult == call("validateAge_NeverThrow", validateAge_NeverThrow(age))
        chain ==
            andThen(
                andThen(received(emailResult.result),
                        [validEmail \in String |->
                            map(call("validatePassword_NeverThrow",
                                     validatePassword_NeverThrow(password)),
                                [validPassword \in String |->
                                    [email |-> validEmail,
                                     password |-> validPassword,
                                     age |-> age]])]),
                [partial \in UserPayload |->
                    map(received(ageResult.result),
                        [validAge \in Number |->
                            [partial EXCEPT !.age = validAge]])])
    IN  [result |-> chain.result,
         calls |-> emailResult.calls \o passwordResult.calls
                       \o ageResult.calls \o chain.calls]

\* error-handling-demo.ts: the first callback maps over the password Result
\* evaluated before the chain instead of calling the validator again.
processUserInput_standalone(email, password, age) ==
    LET emailResult == call("validateEmail_NeverThrow",
                            validateEmail_NeverThrow(email))
        passwordResult == call("validatePassword_NeverThrow",
                               validatePassword_NeverThrow(password))
        ageResult == call("validateAge_NeverThrow", validateAge_NeverThrow(age))
        chain ==
            andThen(
                andThen(received(emailResult.result),
                        [validEmail \in String |->
                            map(received(passwordResult.result),
                                [validPassword \in String |->
                                    [email |-> validEmail,
                                     password |-> validPassword,
                                     age |-> age]])]),
                [partial \in UserPayload |->
                    map(received(ageResult.result),
                        [validAge \in Number |->
                            [partial EXCEPT !.age = validAge]])])
    IN  [result |-> chain.result,
         calls |-> emailResult.calls \o passwordResult.calls
                       \o ageResult.calls \o chain.calls]

processUserInput_log ==
    <<"--- 5.1: Errors Flow Through the Pipeline ---">>

(***************************************************************************)
(* errors-as-values.ts 5.2: validateAndFormatError maps the error of its    *)
(* own email validator, which checks the '@' only, to an ApiError.  The     *)
(* timestamp is the clock reading at the time of the conversion.            *)
(***************************************************************************)
\* Clock readings: an earlier and a later one.
Times ==
    {0, 1}

EmailValidationErrors ==
    [name : {"EmailValidationError"}, message : String]

validateEmail_ForApi(email) ==
    IF ~includes(email, <<"@">>)
    THEN err(EmailValidationError(S_MissingAtSymbol))
    ELSE ok(trim(toLowerCase(email)))

convertToApiError(error, now) ==
    [code |-> "VALIDATION_ERROR", timestamp |-> now]

\* Mutant: wraps the full email validator instead of the API one.
validateAndFormatError_fullValidator(email, now) ==
    mapErr(call("validateEmail_NeverThrow", validateEmail_NeverThrow(email)),
           [error \in EmailValidationErrors |-> convertToApiError(error, now)])

validateAndFormatError(email, now) ==
    mapErr(call("validateEmail_ForApi", validateEmail_ForApi(email)),
           [error \in EmailValidationErrors |-> convertToApiError(error, now)])

validateAndFormatError_log ==
    <<"--- 5.2: Transform Errors with mapErr ---">>

(***************************************************************************)
(* errors-as-values.ts 5.3: the validators of the collecting variant and    *)
(* validateAll_Collect.  A ValidationIssue is [field, message].             *)
(***************************************************************************)
validateEmail_Collect(email) ==
    IF ~includes(email, <<"@">>)
    THEN err([field |-> "email", message |-> S_MissingAtSymbol])
    ELSE IF ~includes(email, <<".">>)
    THEN err([field |-> "email", message |-> S_MissingDomain])
    ELSE ok(trim(toLowerCase(email)))

validatePassword_Collect(password) ==
    IF Len(password) < MinPasswordLength
    THEN err([field |-> "password", message |-> S_TooShort])
    ELSE ok(password)

\* Mutant: the collecting variant stops at the email issue.
validateAll_Collect_firstOnly(email, password) ==
    LET emailResult == validateEmail_Collect(email)
        passwordResult == validatePassword_Collect(password)
    IN  IF isErr(emailResult)
        THEN err(<<emailResult.error>>)
        ELSE IF isErr(passwordResult)
        THEN err(<<passwordResult.error>>)
        ELSE ok([email |-> emailResult.value, password |-> passwordResult.value])

validateAll_Collect(email, password) ==
    LET emailResult == validateEmail_Collect(email)
        passwordResult == validatePassword_Collect(password)
    IN  IF isErr(emailResult)
        THEN err(<<emailResult.error>>
                     \o IF isErr(passwordResult)
                        THEN <<passwordResult.error>> ELSE <<>>)
        ELSE IF isErr(passwordResult)
        THEN err(<<passwordResult.error>>)
        ELSE ok([email |-> emailResult.value, password |-> passwordResult.value])

validateAll_Collect_log ==
    <<"--- 5.3: Collect Multiple Errors ---">>

(***************************************************************************)
(* errors-as-values.ts 5.4 and 5.5: the error of validateEmail is passed to *)
(* logError, or stored in the module-level errorLog with the clock reading  *)
(* of the call.  Both return the Result of validateEmail itself.            *)
(***************************************************************************)
logError_log(error) ==
    <<"[ERROR ${error.name}] ${error.message}">>

validateAndLog(email) ==
    validateEmail_NeverThrow(email)

validateAndLog_log(email) ==
    <<"--- 5.4: Pass Errors to Functions ---">>
        \o IF isErr(validateEmail_NeverThrow(email))
           THEN logError_log(validateEmail_NeverThrow(email).error)
           ELSE <<>>

validateAndRecord(email) ==
    validateEmail_NeverThrow(email)

\* Mutant: the entry is put in front of the log.
validateAndRecord_errorLog_unshift(log, email, now) ==
    LET r == validateEmail_NeverThrow(email)
    IN  IF isErr(r)
        THEN <<[timestamp |-> now, error |-> r.error]>> \o log
        ELSE log

validateAndRecord_errorLog(log, email, now) ==
    LET r == validateEmail_NeverThrow(email)
    IN  IF isErr(r)
        THEN Append(log, [timestamp |-> now, error |-> r.error])
        ELSE log

validateAndRecord_log ==
    <<"--- 5.5: Store Errors in Data Structures ---">>

(***************************************************************************)
(* errors-as-values.ts 5.6 and 5.7: recovery keyed on the message text.     *)
(***************************************************************************)
S_MissingAt ==
    <<"M", "i", "s", "s", "i", "n", "g", " ", "@">>

S_domain ==
    <<"d", "o", "m", "a", "i", "n">>

S_Missing ==
    <<"M", "i", "s", "s", "i", "n", "g">>

S_userDefault ==
    <<"u", "s", "e", "r", "@", "d", "e", "f", "a", "u", "l", "t", ".", "c", "o", "m">>

S_userGmail ==
    <<"u", "s", "e", "r", "@", "g", "m", "a", "i", "l", ".", "c", "o", "m">>

\* Mutant: every failure is recovered, whatever its message.
validateWithFallback_catchAll(email) ==
    LET r == validateEmail_NeverThrow(email)
    IN  IF isErr(r) THEN ok(S_userDefault) ELSE r

validateWithFallback(email) ==
    LET r == validateEmail_NeverThrow(email)
    IN  IF isErr(r)
        THEN IF includes(r.error.message, S_MissingAt)
             THEN ok(S_userDefault)
             ELSE r
        ELSE r

validateWithFallback_log(email) ==
    LET r == validateEmail_NeverThrow(email)
    IN  <<"--- 5.6: Error Recovery without Try-Catch ---">>
            \o IF isErr(r)
               THEN <<"  -> Received error as value:">>
                        \o IF includes(r.error.message, S_MissingAt)
                           THEN <<"  -> Attempting recovery with default...",
                                  "  -> Recovered to:">>
                           ELSE <<>>
               ELSE <<"  -> No error, returning valid email:">>

\* Mutant: the handler matches "Missing" instead of "domain".
validateWithConditionalHandling_wrongKey(email) ==
    LET emailResult == validateEmail_NeverThrow(email)
    IN  IF isErr(emailResult)
        THEN IF includes(emailResult.error.message, S_Missing)
             THEN ok(S_userGmail)
             ELSE emailResult
        ELSE emailResult

\* Mutant: the handler throws the error it does not handle.
validateWithConditionalHandling_throws(email) ==
    LET emailResult == validateEmail_NeverThrow(email)
    IN  IF isErr(emailResult)
        THEN IF includes(emailResult.error.message, S_domain)
             THEN ok(S_userGmail)
             ELSE [thrown |-> emailResult.error]
        ELSE emailResult

validateWithConditionalHandling(email) ==
    LET emailResult == validateEmail_NeverThrow(email)
    IN  IF isErr(emailResult)
        THEN IF includes(emailResult.error.message, S_domain)
             THEN ok(S_userGmail)
             ELSE emailResult
        ELSE emailResult

validateWithConditionalHandling_log(email) ==
    LET emailResult == validateEmail_NeverThrow(email)
    IN  <<"--- 5.7: Conditional Handling Based on Error Type ---">>
            \o IF isErr(emailResult)
               THEN IF includes(emailResult.error.message, S_domain)
                    THEN <<"  -> Suggesting common domains...">>
                    ELSE <<"  -> Returning original error">>
               ELSE <<"  -> Email valid, no error to handle">>

(***************************************************************************)
(* errors-as-values.ts: runErrorsAsValues empties errorLog and then calls   *)
(* every operation of the module on fixed arguments.                        *)
(***************************************************************************)
S_testEmail ==
    <<"t", "e", "s", "t", "@", "e", "x", "a", "m", "p", "l", "e", ".", "c", "o", "m">>

S_userExample ==
    <<"u", "s", "e", "r", "@", "e", "x", "a", "m", "p", "l", "e", ".", "c", "o", "m">>

S_invalid ==
    <<"i", "n", "v", "a", "l", "i", "d">>

S_anotherInvalid ==
    <<"a", "n", "o", "t", "h", "e", "r", "-", "i", "n", "v", "a", "l", "i", "d">>

S_short ==
    <<"s", "h", "o", "r", "t">>

S_SecurePass123 ==
    <<"S", "e", "c", "u", "r", "e", "P", "a", "s", "s", "1", "2", "3">>

\* Mutant: the log is not emptied at entry.
runErrorsAsValues_errorLog_noReset(log, now1, now2) ==
    validateAndRecord_errorLog(
        validateAndRecord_errorLog(log, S_invalid, now1),
        S_anotherInvalid, now2)

runErrorsAsValues_errorLog(log, now1, now2) ==
    validateAndRecord_errorLog(
        validateAndRecord_errorLog(<<>>, S_invalid, now1),
        S_anotherInvalid, now2)

\* What runErrorsAsValues prints before and after the mapped error, the
\* only Result of the run that holds a clock reading.
runErrorsAsValues_log_pipeline ==
    <<"=== ERRORS AS VALUES ===">>
        \o processUserInput_log
        \o (IF isOk(processUserInput(S_testEmail, S_SecurePass123, 25).result)
            THEN <<"Pipeline success:">>
            ELSE <<"Pipeline error:">>)

runErrorsAsValues_log_rest ==
    validateAll_Collect_log
        \o (IF isOk(validateAll_Collect(S_invalid, S_short))
            THEN <<"Collected success:">>
            ELSE <<"Collected errors:">>)
        \o validateAndLog_log(S_invalid)
        \o validateAndRecord_log
        \o validateAndRecord_log
        \o <<"Error log size:">>
        \o validateWithFallback_log(S_invalid)
        \o validateWithConditionalHandling_log(S_userExample)

runErrorsAsValues_log(now) ==
    runErrorsAsValues_log_pipeline
        \o validateAndFormatError_log
        \o (IF isOk(validateAndFormatError(S_invalid, now).result)
            THEN <<"Mapped success:">>
            ELSE <<"Mapped error:">>)
        \o runErrorsAsValues_log_rest

(***************************************************************************)
(* try-catch.ts: the exception-based validators.  What a call of a function *)
(* that may throw ends in is return(v) or throw(e).                         *)
(***************************************************************************)
\* What a function without a return value returns.
Undefined ==
    [undefined |-> TRUE]

return(v) ==
    [returned |-> v]

throw(e) ==
    [thrown |-> e]

throws(completion) ==
    "thrown" \in DOMAIN completion

S_DatabasePrefix ==
    <<"D", "a", "t", "a", "b", "a", "s", "e", " ", "e", "r", "r", "o", "r", ":", " ">>

S_EmailReserved ==
    <<"E", "m", "a", "i", "l", " ", "r", "e", "s", "e", "r", "v", "e", "d">>

S_admin ==
    <<"a", "d", "m", "i", "n">>

DatabaseError(message) ==
    [name |-> "DatabaseError", message |-> S_DatabasePrefix \o message]

validateEmail_FP1(email) ==
    IF ~includes(email, <<"@">>)
    THEN throw(EmailValidationError(S_MissingAtSymbol))
    ELSE IF ~includes(email, <<".">>)
         THEN throw(EmailValidationError(S_MissingDomain))
         ELSE return(trim(toLowerCase(email)))

validatePassword_FP1(password) ==
    IF Len(password) < MinPasswordLength
    THEN throw(PasswordValidationError(S_TooShort))
    ELSE IF ~hasUpper(password)
         THEN throw(PasswordValidationError(S_MissingUppercase))
         ELSE IF ~hasDigit(password)
              THEN throw(PasswordValidationError(S_MissingNumber))
              ELSE return(password)

\* Mutant: the age 13 is rejected.
validateAge_FP1_offByOne(age) ==
    IF age <= MinAge
    THEN throw(AgeValidationError(S_Must13))
    ELSE IF age > MaxAge
         THEN throw(AgeValidationError(S_InvalidAge))
         ELSE return(age)

validateAge_FP1(age) ==
    IF age < MinAge
    THEN throw(AgeValidationError(S_Must13))
    ELSE IF age > MaxAge
         THEN throw(AgeValidationError(S_InvalidAge))
         ELSE return(age)

saveUserToDatabase_FP1(user) ==
    IF includes(user.email, S_admin)
    THEN throw(DatabaseError(S_EmailReserved))
    ELSE return("user-123")

(***************************************************************************)
(* try-catch.ts: registration with try and catch.  A block ends in a        *)
(* completion; calls lists the validators called and the catch blocks       *)
(* entered, log the lines printed.                                          *)
(***************************************************************************)
registerUser_TryCatch(email, password, age) ==
    LET validEmail == validateEmail_FP1(email)
        validPassword == validatePassword_FP1(password)
        validAge == validateAge_FP1(age)
        userId == saveUserToDatabase_FP1([email |-> validEmail.returned,
                                          password |-> validPassword.returned,
                                          age |-> validAge.returned])
        try ==
            IF throws(validEmail)
            THEN [calls |-> <<"validateEmail_FP1">>, completion |-> validEmail]
            ELSE IF throws(validPassword)
            THEN [calls |-> <<"validateEmail_FP1", "validatePassword_FP1">>,
                  completion |-> validPassword]
            ELSE IF throws(validAge)
            THEN [calls |-> <<"validateEmail_FP1", "validatePassword_FP1",
                              "validateAge_FP1">>,
                  completion |-> validAge]
            ELSE IF throws(userId)
            THEN [calls |-> <<"validateEmail_FP1", "validatePassword_FP1",
                              "validateAge_FP1", "saveUserToDatabase_FP1">>,
                  completion |-> userId]
            ELSE [calls |-> <<"validateEmail_FP1", "validatePassword_FP1",
                              "validateAge_FP1", "saveUserToDatabase_FP1">>,
                  completion |-> return([success |-> TRUE,
                                         userId |-> userId.returned])]
    IN  IF throws(try.completion)
        THEN [completion |-> return([success |-> FALSE,
                                     error |-> "Something failed"]),
              calls |-> try.calls \o <<"catch">>,
              log |-> <<"--- PROBLEM 1: Blind Try-Catch ---",
                        "Caught error, but...", "  - Type:", "  - Name:",
                        "  - Message:">>]
        ELSE [completion |-> try.completion,
              calls |-> try.calls,
              log |-> <<"--- PROBLEM 1: Blind Try-Catch ---">>]

\* Mutant: the password is validated after a valid email, as in a flat
\* sequence of checks.
registerUser_Nested_sequential(email, password, age) ==
    LET validEmail == validateEmail_FP1(email)
        validPassword == validatePassword_FP1(password)
        inner ==
            IF throws(validEmail)
            THEN [calls |-> <<"validateEmail_FP1", "catch email">>,
                  log |-> <<"Handle email error:">>,
                  completion |-> validEmail]
            ELSE [calls |-> <<"validateEmail_FP1">>,
                  log |-> <<"Email OK:">>,
                  completion |-> return(Undefined)]
        middle ==
            IF ~throws(inner.completion)
            THEN IF throws(validPassword)
                 THEN [calls |-> inner.calls
                                     \o <<"validatePassword_FP1", "catch password">>,
                       log |-> inner.log \o <<"Handle password error:">>,
                       completion |-> validPassword]
                 ELSE [calls |-> inner.calls \o <<"validatePassword_FP1">>,
                       log |-> inner.log \o <<"Password OK:">>,
                       completion |-> return(Undefined)]
            ELSE inner
        outer ==
            IF throws(middle.completion)
            THEN [calls |-> middle.calls \o <<"catch final">>,
                  log |-> middle.log
                      \o <<"Final error handler - still unclear what went wrong">>,
                  completion |-> return(Undefined)]
            ELSE middle
    IN  [completion |-> outer.completion,
         calls |-> outer.calls,
         log |-> <<"--- PROBLEM 3: Nested Try-Catch Hell ---">> \o outer.log]

\* The innermost catch rethrows an EmailValidationError and swallows any
\* other error; the catch around it validates the password and rethrows a
\* PasswordValidationError; the outermost catch handles whatever is left.
registerUser_Nested(email, password, age) ==
    LET validEmail == validateEmail_FP1(email)
        validPassword == validatePassword_FP1(password)
        inner ==
            IF throws(validEmail)
            THEN IF validEmail.thrown.name = "EmailValidationError"
                 THEN [calls |-> <<"validateEmail_FP1", "catch email">>,
                       log |-> <<"Handle email error:">>,
                       completion |-> validEmail]
                 ELSE [calls |-> <<"validateEmail_FP1", "catch email">>,
                       log |-> <<>>,
                       completion |-> return(Undefined)]
            ELSE [calls |-> <<"validateEmail_FP1">>,
                  log |-> <<"Email OK:">>,
                  completion |-> return(Undefined)]
        middle ==
            IF throws(inner.completion)
            THEN IF throws(validPassword)
                 THEN IF validPassword.thrown.name = "PasswordValidationError"
                      THEN [calls |-> inner.calls
                                          \o <<"validatePassword_FP1",
                                               "catch password">>,
                            log |-> inner.log \o <<"Handle password error:">>,
                            completion |-> validPassword]
                      ELSE [calls |-> inner.calls
                                          \o <<"validatePassword_FP1",
                                               "catch password">>,
                            log |-> inner.log,
                            completion |-> return(Undefined)]
                 ELSE [calls |-> inner.calls \o <<"validatePassword_FP1">>,
                       log |-> inner.log \o <<"Password OK:">>,
                       completion |-> return(Undefined)]
            ELSE inner
        outer ==
            IF throws(middle.completion)
            THEN [calls |-> middle.calls \o <<"catch final">>,
                  log |-> middle.log
                      \o <<"Final error handler - still unclear what went wrong">>,
                  completion |-> return(Undefined)]
            ELSE middle
    IN  [completion |-> outer.completion,
         calls |-> outer.calls,
         log |-> <<"--- PROBLEM 3: Nested Try-Catch Hell ---">> \o outer.log]

(***************************************************************************)
(* The pieces of the two entry points: what each section prints on the      *)
(* arguments the demo passes.                                               *)
(***************************************************************************)
S_password123 ==
    <<"p", "a", "s", "s", "w", "o", "r", "d", "1", "2", "3">>

S_badEmail ==
    <<"b", "a", "d", "-", "e", "m", "a", "i", "l">>

S_newExample ==
    <<"n", "e", "w", "@", "e", "x", "a", "m", "p", "l", "e", ".", "c", "o", "m">>

Rule ==
    "======================================================================"

runDemo_log_title ==
    <<Rule, "ERROR HANDLING DEMO: Why Try-Catch Sucks & NeverThrow Fixes It",
      Rule>>

\* The first takeaway is written without the backquotes around unknown.
runDemo_log_takeaways ==
    <<Rule, "KEY TAKEAWAYS:",
      "1. Try-catch errors are unknown - no type safety",
      "2. Type assertions lie to TypeScript - dangerous!",
      "3. Result pattern makes errors explicit and composable",
      "4. neverthrow provides battle-tested Result<T,E>",
      "5. match() forces exhaustive error handling",
      "6. ERRORS ARE VALUES - they flow through the program!",
      "   - Transform with mapErr", "   - Pass to functions",
      "   - Store in arrays", "   - Recover with orElse", Rule>>

runErrors_log ==
    <<"Error classes loaded:", "  - EmailValidationError",
      "  - PasswordValidationError", "  - AgeValidationError",
      "  - DuplicateEmailError", "  - DatabaseError">>

\* JSON.parse throws a SyntaxError on the text "invalid json" the demo passes.
parseUserInput_FP2_log ==
    <<"Error message:">>

parseUserInput_Unknown_log ==
    <<"Known error:">>

approach1_TryCatch_log(email) ==
    IF throws(validateEmail_FP1(email))
    THEN <<"Error (unknown type):">>
    ELSE <<"Valid:">>

validateEmail_Result(email) ==
    IF ~includes(email, <<"@">>)
    THEN [ok |-> FALSE, error |-> EmailValidationError(S_MissingAtSymbol)]
    ELSE IF ~includes(email, <<".">>)
         THEN [ok |-> FALSE, error |-> EmailValidationError(S_MissingDomain)]
         ELSE [ok |-> TRUE, value |-> trim(toLowerCase(email))]

approach2_Custom_log(email) ==
    IF validateEmail_Result(email).ok THEN <<"Valid:">> ELSE <<"Error:">>

approach3_NeverThrow_log(email) ==
    IF isOk(validateEmail_NeverThrow(email)) THEN <<"Valid:">> ELSE <<"Error:">>

handleRegistration_NeverThrow_log(email, password, age) ==
    <<"--- 4.2: Pattern Matching with match() ---">>
        \o (IF isOk(validateEmail_NeverThrow(email))
            THEN <<"Email valid:">>
            ELSE <<"Email error:">>)
        \o (IF isOk(validatePassword_NeverThrow(password))
            THEN <<"Password valid">>
            ELSE <<"Password error:">>)
        \o (IF isOk(validateAge_NeverThrow(age))
            THEN <<"Age valid:">>
            ELSE <<"Age error:">>)

validateWithDefaults_log(email, age) ==
    <<"--- 4.5: Error Recovery with orElse() ---">>
        \o IF isErr(validateEmail_NeverThrow(email))
           THEN <<"Recovering from email error:">>
           ELSE <<>>

\* registerUser_NeverThrow up to its first return or its await: what it
\* prints, the payload Result it holds and where it stands.
registerUser_NeverThrow_entered(email, password, age) ==
    LET ev == createUserPayload(email, password, age)
    IN  [payloadResult |-> ev.result,
         log |-> <<"--- 4.4: Async with ResultAsync ---">>
                     \o createUserPayload_log
                     \o (IF isErr(ev.result)
                         THEN <<"Registration failed:">>
                         ELSE <<>>),
         pc |-> IF isErr(ev.result) THEN "idle" ELSE "timer"]

runTryCatch_log ==
    <<"=== TRY-CATCH PROBLEMS ===">>
        \o registerUser_TryCatch(S_testEmail, S_password123, 25).log
        \o parseUserInput_FP2_log
        \o parseUserInput_Unknown_log
        \o registerUser_Nested(S_testEmail, S_password123, 25).log
        \o approach1_TryCatch_log(S_testEmail)

\* runNeverThrow before and after its call of registerUser_NeverThrow.
runNeverThrow_log_before ==
    <<"=== NEVERTHROW SOLUTION ===">>
        \o handleRegistration_NeverThrow_log(S_testEmail, S_password123, 25)
        \o createUserPayload_log
        \o <<"Chained result type:">>

runNeverThrow_log_after ==
    validateWithDefaults_log(S_badEmail, 25)
        \o <<"Recovery result:">>
        \o approach3_NeverThrow_log(S_testEmail)

\* The errors-as-values section of error-handling-demo.ts, which has no
\* runErrorsAsValues: the calls are made by runDemo itself.
runDemo_log_section5(now) ==
    <<Rule, "SECTION 5: ERRORS AS VALUES", Rule>>
        \o processUserInput_log
        \o (IF isOk(processUserInput_standalone(S_testEmail, S_SecurePass123,
                                                25).result)
            THEN <<"Pipeline success:">>
            ELSE <<"Pipeline error:">>)
        \o validateAndFormatError_log
        \o (IF isOk(validateAndFormatError(S_invalid, now).result)
            THEN <<"Mapped success:">>
            ELSE <<"Mapped error:">>)
        \o runErrorsAsValues_log_rest

(***************************************************************************)
(* Inputs.  A run is given one (email, password, age): every email of the   *)
(* bounded set with the password and age of the demo's successful           *)
(* registration, and every combination of a pipeline email (the samples     *)
(* and one email for each way validateEmail fails) with a bounded password  *)
(* and an age around the two limits.                                        *)
(***************************************************************************)
BoundedSeq(S, n) ==
    UNION {[1..k -> S] : k \in 0..n}

EmailChars ==
    {"B", "@", ".", " "}

S_newEmail ==
    <<"n", "e", "w", "@", "b", ".", "c">>

S_existingEmail ==
    <<"e", "x", "i", "s", "t", "i", "n", "g", "@", "b", ".", "c">>

S_paddedEmail ==
    <<" ", " ", "E", "x", "i", "s", "t", "i", "n", "g", "@", "B", ".", "c", " ">>

DemoAge == 30

SampleEmails ==
    {S_newEmail, S_existingEmail, S_paddedEmail}

Emails ==
    BoundedSeq(EmailChars, MaxEmailLen) \cup SampleEmails

FailingEmails ==
    {<<>>, <<" ">>, <<".">>, <<"@">>}

PipelineEmails ==
    FailingEmails \cup SampleEmails

PasswordChars ==
    {"A", "1"}

Pad(k) ==
    [i \in 1..k |-> "x"]

Passwords ==
    {Pad(k) \o t : k \in (MaxPad - 1)..MaxPad,
                   t \in BoundedSeq(PasswordChars, MaxTail)}
        \cup {S_SecurePass123}

Ages ==
    {-1, DemoAge} \cup ((MinAge - AgeSlack)..(MinAge + AgeSlack))
                  \cup ((MaxAge - AgeSlack)..(MaxAge + AgeSlack))

Inputs ==
    (Emails \X {S_SecurePass123} \X {DemoAge})
        \cup (PipelineEmails \X Passwords \X Ages)

\* The emails passed to validateAndRecord: one without '@', one without a
\* domain and a valid one.
LogEmails ==
    {S_invalid, <<"@">>, S_newEmail}

LogInputs ==
    LogEmails \X {S_SecurePass123} \X {DemoAge}

(***************************************************************************)
(* State.                                                                   *)
(*   email, password, age : the arguments the caller passes in this run     *)
(*   op            : the operation the caller invoked last                  *)
(*   result        : what that operation returned (Pending while the async  *)
(*                   registration is suspended, Undefined for a void return)*)
(*   calls         : the functions that operation invoked, in order         *)
(*   console       : the lines written to the console so far (the fixed     *)
(*                   text of each line)                                     *)
(*   pc            : position of registerUser_NeverThrow                    *)
(*   payloadResult, dbCheck : locals of registerUser_NeverThrow             *)
(*   errorLog      : the module-level errorLog of errors-as-values.ts       *)
(*   runDemo       : the entry point that is running and its position       *)
(***************************************************************************)
VARIABLES email, password, age, op, result, calls, console, pc,
          payloadResult, dbCheck, errorLog, runDemo

vars ==
    <<email, password, age, op, result, calls, console, pc,
      payloadResult, dbCheck, errorLog, runDemo>>

Pending ==
    [pending |-> TRUE]

\* No entry point is running: the caller invokes the operations itself.
NotRunning ==
    [entry |-> "none", at |-> "none"]

Init ==
    /\ \E in \in Inputs :
        /\ email = in[1]
        /\ password = in[2]
        /\ age = in[3]
    /\ op = "none"
    /\ result = Undefined
    /\ calls = <<>>
    /\ console = <<>>
    /\ pc = "idle"
    /\ payloadResult = Undefined
    /\ dbCheck = Undefined
    /\ errorLog = <<>>
    /\ runDemo = NotRunning

(***************************************************************************)
(* The caller invokes one validator.                                        *)
(***************************************************************************)
ValidateEmail ==
    /\ pc = "idle"
    /\ op' = "validateEmail_NeverThrow"
    /\ result' = validateEmail_NeverThrow(email)
    /\ calls' = <<"validateEmail_NeverThrow">>
    /\ payloadResult' = Undefined
    /\ dbCheck' = Undefined
    /\ UNCHANGED <<runDemo, errorLog, email, password, age, console, pc>>

ValidatePassword ==
    /\ pc = "idle"
    /\ op' = "validatePassword_NeverThrow"
    /\ result' = validatePassword_NeverThrow(password)
    /\ calls' = <<"validatePassword_NeverThrow">>
    /\ payloadResult' = Undefined
    /\ dbCheck' = Undefined
    /\ UNCHANGED <<runDemo, errorLog, email, password, age, console, pc>>

ValidateAge ==
    /\ pc = "idle"
    /\ op' = "validateAge_NeverThrow"
    /\ result' = validateAge_NeverThrow(age)
    /\ calls' = <<"validateAge_NeverThrow">>
    /\ payloadResult' = Undefined
    /\ dbCheck' = Undefined
    /\ UNCHANGED <<runDemo, errorLog, email, password, age, console, pc>>

(***************************************************************************)
(* The caller invokes createUserPayload.                                    *)
(***************************************************************************)
CreateUserPayload ==
    /\ pc = "idle"
    /\ Len(console) < MaxConsole + Len(errorLog)
    /\ LET ev == createUserPayload(email, password, age)
       IN  /\ result' = ev.result
           /\ calls' = <<"createUserPayload">> \o ev.calls
    /\ op' = "createUserPayload"
    /\ console' = console \o createUserPayload_log
    /\ payloadResult' = Undefined
    /\ dbCheck' = Undefined
    /\ UNCHANGED <<runDemo, errorLog, email, password, age, pc>>

\* Mutant: the lookup is started before the payload Result is inspected.
RegisterUser_eagerLookup ==
    /\ pc = "idle"
    /\ Len(console) < MaxConsole + Len(errorLog)
    /\ op' = "registerUser_NeverThrow"
    /\ dbCheck' = Undefined
    /\ LET ev == createUserPayload(email, password, age)
           entered == console \o <<"--- 4.4: Async with ResultAsync ---">>
                              \o createUserPayload_log
       IN  /\ payloadResult' = ev.result
           /\ calls' = <<"createUserPayload">> \o ev.calls
                           \o <<"findUserByEmail", "checkEmailExists">>
           /\ IF isErr(ev.result)
              THEN /\ console' = entered \o <<"Registration failed:">>
                   /\ result' = Undefined
                   /\ pc' = "idle"
              ELSE /\ console' = entered
                   /\ result' = Pending
                   /\ pc' = "timer"
    /\ UNCHANGED <<runDemo, errorLog, email, password, age>>

(***************************************************************************)
(* registerUser_NeverThrow, up to its return on invalid input or to the     *)
(* await of findUserByEmail, which awaits checkEmailExists, which awaits    *)
(* the 10 ms timer.                                                         *)
(***************************************************************************)
RegisterUser ==
    /\ pc = "idle"
    /\ Len(console) < MaxConsole + Len(errorLog)
    /\ op' = "registerUser_NeverThrow"
    /\ dbCheck' = Undefined
    /\ LET ev == createUserPayload(email, password, age)
           entered == console \o <<"--- 4.4: Async with ResultAsync ---">>
                              \o createUserPayload_log
       IN  /\ payloadResult' = ev.result
           /\ IF isErr(ev.result)
              THEN /\ console' = entered \o <<"Registration failed:">>
                   /\ calls' = <<"createUserPayload">> \o ev.calls
                   /\ result' = Undefined
                   /\ pc' = "idle"
              ELSE /\ console' = entered
                   /\ calls' = <<"createUserPayload">> \o ev.calls
                                   \o <<"findUserByEmail", "checkEmailExists">>
                   /\ result' = Pending
                   /\ pc' = "timer"
    /\ UNCHANGED <<runDemo, errorLog, email, password, age>>

(***************************************************************************)
(* The timer fires: checkEmailExists returns, then findUserByEmail.         *)
(***************************************************************************)
TimerFires ==
    /\ pc = "timer"
    /\ dbCheck' = findUserByEmail(payloadResult.value.email)
    /\ pc' = "resume"
    /\ UNCHANGED <<runDemo, errorLog, email, password, age, op, result, calls, console,
                   payloadResult>>

(***************************************************************************)
(* registerUser_NeverThrow resumes after the await and returns.             *)
(***************************************************************************)
RegisterUser_Resume ==
    /\ pc = "resume"
    /\ IF isErr(dbCheck)
       THEN console' = console \o <<"Registration failed:">>
       ELSE console' = console \o <<"All validations passed",
                                    "User payload:",
                                    "Registration successful:">>
    /\ result' = Undefined
    /\ pc' = "idle"
    /\ UNCHANGED <<runDemo, errorLog, email, password, age, op, calls, payloadResult, dbCheck>>

(***************************************************************************)
(* The caller invokes an operation of errors-as-values.ts.                  *)
(***************************************************************************)
ProcessUserInput ==
    /\ pc = "idle"
    /\ Len(console) < MaxConsole + Len(errorLog)
    /\ LET ev == processUserInput(email, password, age)
       IN  /\ result' = ev.result
           /\ calls' = <<"processUserInput">> \o ev.calls
    /\ op' = "processUserInput"
    /\ console' = console \o processUserInput_log
    /\ payloadResult' = Undefined
    /\ dbCheck' = Undefined
    /\ UNCHANGED <<runDemo, errorLog, email, password, age, pc>>

ProcessUserInput_Standalone ==
    /\ pc = "idle"
    /\ Len(console) < MaxConsole + Len(errorLog)
    /\ LET ev == processUserInput_standalone(email, password, age)
       IN  /\ result' = ev.result
           /\ calls' = <<"processUserInput_standalone">> \o ev.calls
    /\ op' = "processUserInput_standalone"
    /\ console' = console \o processUserInput_log
    /\ payloadResult' = Undefined
    /\ dbCheck' = Undefined
    /\ UNCHANGED <<runDemo, errorLog, email, password, age, pc>>

ValidateAndFormatError(now) ==
    /\ pc = "idle"
    /\ Len(console) < MaxConsole + Len(errorLog)
    /\ LET ev == validateAndFormatError(email, now)
       IN  /\ result' = ev.result
           /\ calls' = <<"validateAndFormatError">> \o ev.calls
    /\ op' = "validateAndFormatError"
    /\ console' = console \o validateAndFormatError_log
    /\ payloadResult' = Undefined
    /\ dbCheck' = Undefined
    /\ UNCHANGED <<runDemo, errorLog, email, password, age, pc>>

ValidateAll ==
    /\ pc = "idle"
    /\ Len(console) < MaxConsole + Len(errorLog)
    /\ op' = "validateAll_Collect"
    /\ result' = validateAll_Collect(email, password)
    /\ calls' = <<"validateAll_Collect", "validateEmail_Collect",
                  "validatePassword_Collect">>
    /\ console' = console \o validateAll_Collect_log
    /\ payloadResult' = Undefined
    /\ dbCheck' = Undefined
    /\ UNCHANGED <<runDemo, errorLog, email, password, age, pc>>

ValidateWithFallback ==
    /\ pc = "idle"
    /\ Len(console) < MaxConsole + Len(errorLog)
    /\ op' = "validateWithFallback"
    /\ result' = validateWithFallback(email)
    /\ calls' = <<"validateWithFallback", "validateEmail_NeverThrow">>
    /\ console' = console \o validateWithFallback_log(email)
    /\ payloadResult' = Undefined
    /\ dbCheck' = Undefined
    /\ UNCHANGED <<runDemo, errorLog, email, password, age, pc>>

ValidateWithConditionalHandling ==
    /\ pc = "idle"
    /\ Len(console) < MaxConsole + Len(errorLog)
    /\ op' = "validateWithConditionalHandling"
    /\ result' = validateWithConditionalHandling(email)
    /\ calls' = <<"validateWithConditionalHandling", "validateEmail_NeverThrow">>
    /\ console' = console \o validateWithConditionalHandling_log(email)
    /\ payloadResult' = Undefined
    /\ dbCheck' = Undefined
    /\ UNCHANGED <<runDemo, errorLog, email, password, age, pc>>

(***************************************************************************)
(* errors-as-values.ts 5.4, 5.5 and the module's entry point.               *)
(* validateAndRecord is called with an email of its own; the length of      *)
(* errorLog bounds the calls that record.                                   *)
(***************************************************************************)
ValidateAndLog ==
    /\ pc = "idle"
    /\ Len(console) < MaxConsole + Len(errorLog)
    /\ op' = "validateAndLog"
    /\ result' = validateAndLog(email)
    /\ calls' = <<"validateAndLog", "validateEmail_NeverThrow">>
                    \o IF isErr(validateAndLog(email))
                       THEN <<"logError">>
                       ELSE <<>>
    /\ console' = console \o validateAndLog_log(email)
    /\ payloadResult' = Undefined
    /\ dbCheck' = Undefined
    /\ UNCHANGED <<runDemo, errorLog, email, password, age, pc>>

ValidateAndRecord(e, now) ==
    /\ pc = "idle"
    /\ Len(console) < MaxConsole + Len(errorLog)
    /\ Len(errorLog) < MaxLog
    /\ email' = e
    /\ op' = "validateAndRecord"
    /\ result' = validateAndRecord(e)
    /\ calls' = <<"validateAndRecord", "validateEmail_NeverThrow">>
    /\ errorLog' = validateAndRecord_errorLog(errorLog, e, now)
    /\ console' = console \o validateAndRecord_log
    /\ payloadResult' = Undefined
    /\ dbCheck' = Undefined
    /\ UNCHANGED <<runDemo, password, age, pc>>

RunErrorsAsValues(now0, now1, now2) ==
    /\ pc = "idle"
    /\ Len(console) < MaxConsole + Len(errorLog)
    /\ op' = "runErrorsAsValues"
    /\ result' = Undefined
    /\ calls' = <<"runErrorsAsValues", "processUserInput",
                  "validateAndFormatError", "validateAll_Collect",
                  "validateAndLog", "validateAndRecord", "validateAndRecord",
                  "validateWithFallback", "validateWithConditionalHandling">>
    /\ errorLog' = runErrorsAsValues_errorLog(errorLog, now1, now2)
    /\ console' = console \o runErrorsAsValues_log(now0)
    /\ payloadResult' = Undefined
    /\ dbCheck' = Undefined
    /\ UNCHANGED <<runDemo, email, password, age, pc>>

Next ==
    \/ ValidateEmail
    \/ ValidatePassword
    \/ ValidateAge
    \/ CreateUserPayload
    \/ RegisterUser
    \/ TimerFires
    \/ RegisterUser_Resume
    \/ ProcessUserInput
    \/ ProcessUserInput_Standalone
    \/ \E now \in Times : ValidateAndFormatError(now)
    \/ ValidateAll
    \/ ValidateWithFallback
    \/ ValidateWithConditionalHandling

Spec ==
    Init /\ [][Next]_vars

(***************************************************************************)
(* The module with its error log: the caller may also call validateAndLog,  *)
(* validateAndRecord and runErrorsAsValues, in any order.                   *)
(***************************************************************************)
InitLog ==
    /\ \E in \in LogInputs :
        /\ email = in[1]
        /\ password = in[2]
        /\ age = in[3]
    /\ op = "none"
    /\ result = Undefined
    /\ calls = <<>>
    /\ console = <<>>
    /\ pc = "idle"
    /\ payloadResult = Undefined
    /\ dbCheck = Undefined
    /\ errorLog = <<>>
    /\ runDemo = NotRunning

NextLog ==
    \/ Next
    \/ ValidateAndLog
    \/ \E e \in LogEmails, now \in Times : ValidateAndRecord(e, now)
    \/ \E now0, now1, now2 \in Times : RunErrorsAsValues(now0, now1, now2)

SpecLog ==
    InitLog /\ [][NextLog]_vars

(***************************************************************************)
(* The caller invokes an operation of try-catch.ts.                         *)
(***************************************************************************)
ValidateEmail_FP1 ==
    /\ pc = "idle"
    /\ op' = "validateEmail_FP1"
    /\ result' = validateEmail_FP1(email)
    /\ calls' = <<"validateEmail_FP1">>
    /\ payloadResult' = Undefined
    /\ dbCheck' = Undefined
    /\ UNCHANGED <<runDemo, errorLog, email, password, age, console, pc>>

ValidatePassword_FP1 ==
    /\ pc = "idle"
    /\ op' = "validatePassword_FP1"
    /\ result' = validatePassword_FP1(password)
    /\ calls' = <<"validatePassword_FP1">>
    /\ payloadResult' = Undefined
    /\ dbCheck' = Undefined
    /\ UNCHANGED <<runDemo, errorLog, email, password, age, console, pc>>

ValidateAge_FP1 ==
    /\ pc = "idle"
    /\ op' = "validateAge_FP1"
    /\ result' = validateAge_FP1(age)
    /\ calls' = <<"validateAge_FP1">>
    /\ payloadResult' = Undefined
    /\ dbCheck' = Undefined
    /\ UNCHANGED <<runDemo, errorLog, email, password, age, console, pc>>

RegisterUser_TryCatch ==
    /\ pc = "idle"
    /\ Len(console) < MaxConsole + Len(errorLog)
    /\ op' = "registerUser_TryCatch"
    /\ LET run == registerUser_TryCatch(email, password, age)
       IN  /\ result' = run.completion
           /\ calls' = <<"registerUser_TryCatch">> \o run.calls
           /\ console' = console \o run.log
    /\ payloadResult' = Undefined
    /\ dbCheck' = Undefined
    /\ UNCHANGED <<runDemo, errorLog, email, password, age, pc>>

RegisterUser_Nested ==
    /\ pc = "idle"
    /\ Len(console) < MaxConsole + Len(errorLog)
    /\ op' = "registerUser_Nested"
    /\ LET run == registerUser_Nested(email, password, age)
       IN  /\ result' = run.completion
           /\ calls' = <<"registerUser_Nested">> \o run.calls
           /\ console' = console \o run.log
    /\ payloadResult' = Undefined
    /\ dbCheck' = Undefined
    /\ UNCHANGED <<runDemo, errorLog, email, password, age, pc>>

NextTryCatch ==
    \/ ValidateEmail_FP1
    \/ ValidatePassword_FP1
    \/ ValidateAge_FP1
    \/ RegisterUser_TryCatch
    \/ RegisterUser_Nested

SpecTryCatch ==
    Init /\ [][NextTryCatch]_vars

(***************************************************************************)
(* The two entry points.  runDemo runs from one await to the next without   *)
(* interruption; the registration it starts is the process of               *)
(* RegisterUser above, resumed by TimerFires and RegisterUser_Resume.       *)
(* email, password and age are the arguments of that registration: the      *)
(* demo passes ("new@example.com", "SecurePass123", 30).                    *)
(***************************************************************************)
DemoInputs ==
    (PipelineEmails \cup {S_newExample})
        \X {S_SecurePass123, S_password123} \X {DemoAge}

InitDemo ==
    /\ \E in \in DemoInputs :
        /\ email = in[1]
        /\ password = in[2]
        /\ age = in[3]
    /\ op = "none"
    /\ result = Undefined
    /\ calls = <<>>
    /\ console = <<>>
    /\ pc = "idle"
    /\ payloadResult = Undefined
    /\ dbCheck = Undefined
    /\ errorLog = <<>>
    /\ runDemo \in [entry : {"demo.ts", "error-handling-demo.ts"},
                    at : {"start"}]

\* demo.ts: runDemo up to its only await.
RunDemo_Modular_Start ==
    /\ runDemo = [entry |-> "demo.ts", at |-> "start"]
    /\ op' = "runDemo"
    /\ result' = Pending
    /\ calls' = <<"runDemo", "runErrors", "runTryCatch">>
    /\ console' = console \o runDemo_log_title \o runErrors_log
                          \o runTryCatch_log
    /\ runDemo' = [runDemo EXCEPT !.at = "await runTryCatch"]
    /\ UNCHANGED <<email, password, age, pc, payloadResult, dbCheck, errorLog>>

\* demo.ts: the rest of runDemo.  runNeverThrow calls
\* registerUser_NeverThrow without awaiting it.
RunDemo_Modular_Rest(now0, now1, now2) ==
    /\ runDemo = [entry |-> "demo.ts", at |-> "await runTryCatch"]
    /\ result' = Undefined
    /\ calls' = <<"runDemo", "runNeverThrow", "registerUser_NeverThrow",
                  "runErrorsAsValues">>
    /\ LET entered == registerUser_NeverThrow_entered(email, password, age)
       IN  /\ payloadResult' = entered.payloadResult
           /\ pc' = entered.pc
           /\ console' = console \o runNeverThrow_log_before
                                 \o entered.log
                                 \o runNeverThrow_log_after
                                 \o runErrorsAsValues_log(now0)
                                 \o runDemo_log_takeaways
    /\ dbCheck' = Undefined
    /\ errorLog' = runErrorsAsValues_errorLog(errorLog, now1, now2)
    /\ runDemo' = [runDemo EXCEPT !.at = "finished"]
    /\ UNCHANGED <<email, password, age, op>>

\* error-handling-demo.ts: runDemo awaits every async function it calls.
RunDemo_Standalone_Start ==
    /\ runDemo = [entry |-> "error-handling-demo.ts", at |-> "start"]
    /\ op' = "runDemo"
    /\ result' = Pending
    /\ calls' = <<"runDemo", "registerUser_TryCatch">>
    /\ console' = console \o runDemo_log_title
                          \o registerUser_TryCatch(S_testEmail, S_password123,
                                                   25).log
    /\ runDemo' = [runDemo EXCEPT !.at = "await registerUser_TryCatch"]
    /\ UNCHANGED <<email, password, age, pc, payloadResult, dbCheck, errorLog>>

RunDemo_Standalone_Nested ==
    /\ runDemo = [entry |-> "error-handling-demo.ts",
                  at |-> "await registerUser_TryCatch"]
    /\ calls' = <<"runDemo", "parseUserInput_FP2", "registerUser_Nested">>
    /\ console' = console \o parseUserInput_FP2_log
                          \o registerUser_Nested(S_testEmail, S_password123,
                                                 25).log
    /\ runDemo' = [runDemo EXCEPT !.at = "await registerUser_Nested"]
    /\ UNCHANGED <<email, password, age, op, result, pc, payloadResult,
                   dbCheck, errorLog>>

RunDemo_Standalone_Register ==
    /\ runDemo = [entry |-> "error-handling-demo.ts",
                  at |-> "await registerUser_Nested"]
    /\ calls' = <<"runDemo", "handleRegistration_NeverThrow",
                  "createUserPayload", "registerUser_NeverThrow">>
    /\ LET entered == registerUser_NeverThrow_entered(email, password, age)
       IN  /\ payloadResult' = entered.payloadResult
           /\ pc' = entered.pc
           /\ console' = console
                  \o handleRegistration_NeverThrow_log(S_testEmail,
                                                       S_password123, 25)
                  \o createUserPayload_log
                  \o <<"Chained result type:">>
                  \o entered.log
    /\ dbCheck' = Undefined
    /\ runDemo' = [runDemo EXCEPT !.at = "await registerUser_NeverThrow"]
    /\ UNCHANGED <<email, password, age, op, result, errorLog>>

\* runDemo resumes when the registration it awaits has returned.
RunDemo_Standalone_Section5(now0, now1, now2) ==
    /\ runDemo = [entry |-> "error-handling-demo.ts",
                  at |-> "await registerUser_NeverThrow"]
    /\ pc = "idle"
    /\ calls' = <<"runDemo", "validateWithDefaults", "processUserInput",
                  "validateAndFormatError", "validateAll_Collect",
                  "validateAndLog", "validateAndRecord", "validateAndRecord",
                  "validateWithFallback", "validateWithConditionalHandling",
                  "approach1_TryCatch">>
    /\ console' = console \o validateWithDefaults_log(S_badEmail, 25)
                          \o <<"Recovery result:">>
                          \o runDemo_log_section5(now0)
                          \o <<Rule, "SIDE-BY-SIDE COMPARISON", Rule>>
                          \o approach1_TryCatch_log(S_testEmail)
    /\ errorLog' = validateAndRecord_errorLog(
                       validateAndRecord_errorLog(errorLog, S_invalid, now1),
                       S_anotherInvalid, now2)
    /\ runDemo' = [runDemo EXCEPT !.at = "await approach1_TryCatch"]
    /\ UNCHANGED <<email, password, age, op, result, pc, payloadResult,
                   dbCheck>>

RunDemo_Standalone_Approach2 ==
    /\ runDemo = [entry |-> "error-handling-demo.ts",
                  at |-> "await approach1_TryCatch"]
    /\ calls' = <<"runDemo", "approach2_Custom">>
    /\ console' = console \o approach2_Custom_log(S_testEmail)
    /\ runDemo' = [runDemo EXCEPT !.at = "await approach2_Custom"]
    /\ UNCHANGED <<email, password, age, op, result, pc, payloadResult,
                   dbCheck, errorLog>>

RunDemo_Standalone_Approach3 ==
    /\ runDemo = [entry |-> "error-handling-demo.ts",
                  at |-> "await approach2_Custom"]
    /\ calls' = <<"runDemo", "approach3_NeverThrow">>
    /\ console' = console \o approach3_NeverThrow_log(S_testEmail)
    /\ runDemo' = [runDemo EXCEPT !.at = "await approach3_NeverThrow"]
    /\ UNCHANGED <<email, password, age, op, result, pc, payloadResult,
                   dbCheck, errorLog>>

RunDemo_Standalone_Finish ==
    /\ runDemo = [entry |-> "error-handling-demo.ts",
                  at |-> "await approach3_NeverThrow"]
    /\ result' = Undefined
    /\ calls' = <<"runDemo">>
    /\ console' = console \o runDemo_log_takeaways
    /\ runDemo' = [runDemo EXCEPT !.at = "finished"]
    /\ UNCHANGED <<email, password, age, op, pc, payloadResult, dbCheck,
                   errorLog>>

NextDemo ==
    \/ RunDemo_Modular_Start
    \/ \E now0, now1, now2 \in Times : RunDemo_Modular_Rest(now0, now1, now2)
    \/ RunDemo_Standalone_Start
    \/ RunDemo_Standalone_Nested
    \/ RunDemo_Standalone_Register
    \/ \E now0, now1, now2 \in Times :
           RunDemo_Standalone_Section5(now0, now1, now2)
    \/ RunDemo_Standalone_Approach2
    \/ RunDemo_Standalone_Approach3
    \/ RunDemo_Standalone_Finish
    \/ TimerFires
    \/ RegisterUser_Resume

SpecDemo ==
    InitDemo /\ [][NextDemo]_vars

(***************************************************************************)
(* Properties.                                                              *)
(***************************************************************************)

\* C1: whenever createUserPayload is given an input on which at least one
\* validator fails, it returns a Failure carrying exactly one error, the
\* error of the first failing validator in the order email, password, age.
C1_FirstFailureInChainOrder ==
    op = "createUserPayload" =>
        LET re == validateEmail_NeverThrow(email)
            rp == validatePassword_NeverThrow(password)
            ra == validateAge_NeverThrow(age)
        IN  (isErr(re) \/ isErr(rp) \/ isErr(ra)) =>
                /\ DOMAIN result = {"ok", "error"}
                /\ isErr(result)
                /\ DOMAIN result.error = {"name", "message"}
                /\ result.error = IF isErr(re) THEN re.error
                                  ELSE IF isErr(rp) THEN rp.error
                                  ELSE ra.error

\* createUserPayload returned the email error although the password and the
\* age are invalid too.
C1_Witness ==
    /\ op = "createUserPayload"
    /\ isErr(validateEmail_NeverThrow(email))
    /\ isErr(validatePassword_NeverThrow(password))
    /\ isErr(validateAge_NeverThrow(age))
    /\ result.error.name = "EmailValidationError"

\* C2: createUserPayload returns Success exactly when the three validators
\* all succeed, the payload is then {lowercase trimmed email, password
\* unchanged, age unchanged}, and a Failure result holds no payload.
C2_SuccessIffAllValid ==
    op = "createUserPayload" =>
        LET allValid == /\ isOk(validateEmail_NeverThrow(email))
                        /\ isOk(validatePassword_NeverThrow(password))
                        /\ isOk(validateAge_NeverThrow(age))
        IN  /\ isOk(result) <=> allValid
            /\ isOk(result) =>
                   /\ DOMAIN result.value = {"email", "password", "age"}
                   /\ result.value.email = trim(toLowerCase(email))
                   /\ result.value.password = password
                   /\ result.value.age = age
            /\ isErr(result) => "value" \notin DOMAIN result

\* createUserPayload succeeded on an email that normalisation changed.
C2_Witness ==
    /\ op = "createUserPayload"
    /\ isOk(result)
    /\ result.value.email # email

\* C3 as stated: for every email without '@' validateEmail returns a Failure
\* whose message is "Missing @ symbol".
C3_MessageIsMissingAtSymbol ==
    (op = "validateEmail_NeverThrow" /\ ~includes(email, <<"@">>)) =>
        /\ isErr(result)
        /\ result.error.message = S_MissingAtSymbol

\* C3 amended: for every email without '@' (with or without '.')
\* validateEmail returns a Failure whose error is an EmailValidationError
\* with the message "Email validation failed: Missing @ symbol".
C3_MissingAtSymbol ==
    (op = "validateEmail_NeverThrow" /\ ~includes(email, <<"@">>)) =>
        /\ isErr(result)
        /\ result.error.name = "EmailValidationError"
        /\ result.error.message = S_EmailPrefix \o S_MissingAtSymbol

\* validateEmail was given an email with '.' and without '@'.
C3_Witness ==
    /\ op = "validateEmail_NeverThrow"
    /\ ~includes(email, <<"@">>)
    /\ includes(email, <<".">>)
    /\ isErr(result)

\* C4 as stated: for every email with '@' and without '.' validateEmail
\* returns a Failure whose message is "Missing domain".
C4_MessageIsMissingDomain ==
    (/\ op = "validateEmail_NeverThrow"
     /\ includes(email, <<"@">>)
     /\ ~includes(email, <<".">>)) =>
        /\ isErr(result)
        /\ result.error.message = S_MissingDomain

\* C4 amended: for every email with '@' and without '.' validateEmail
\* returns a Failure whose error is an EmailValidationError with the message
\* "Email validation failed: Missing domain", and that failure is returned
\* only for an email that passed the '@' check.
C4_MissingDomain ==
    op = "validateEmail_NeverThrow" =>
        /\ (includes(email, <<"@">>) /\ ~includes(email, <<".">>)) =>
               /\ isErr(result)
               /\ result.error.name = "EmailValidationError"
               /\ result.error.message = S_EmailPrefix \o S_MissingDomain
        /\ (isErr(result) /\ includes(result.error.message, S_MissingDomain)) =>
               includes(email, <<"@">>)

\* validateEmail was given an email with '@' and without '.'.
C4_Witness ==
    /\ op = "validateEmail_NeverThrow"
    /\ includes(email, <<"@">>)
    /\ ~includes(email, <<".">>)
    /\ isErr(result)

\* C5: for every email with both '@' and '.' validateEmail returns Success
\* holding the input in lowercase without its leading and trailing white
\* space: the value is the lowercase image of a slice of the input, only
\* white space lies outside the slice, and the value neither starts nor
\* ends with white space.
C5_LowercaseTrimmed ==
    (/\ op = "validateEmail_NeverThrow"
     /\ includes(email, <<"@">>)
     /\ includes(email, <<".">>)) =>
        /\ isOk(result)
        /\ LET v == result.value
               n == Len(email)
           IN  /\ \E i \in 1..(n + 1) :
                      /\ i + Len(v) - 1 <= n
                      /\ \A k \in 1..n :
                             (k < i \/ k >= i + Len(v)) => email[k] \in WhiteSpace
                      /\ \A k \in 1..Len(v) :
                             v[k] = IF email[i + k - 1] \in UpperChars
                                    THEN LowerOf[email[i + k - 1]]
                                    ELSE email[i + k - 1]
               /\ Len(v) > 0
               /\ v[1] \notin WhiteSpace
               /\ v[Len(v)] \notin WhiteSpace

\* validateEmail accepted an email with an uppercase letter and white space
\* at both ends.
C5_Witness ==
    /\ op = "validateEmail_NeverThrow"
    /\ isOk(result)
    /\ Len(email) > 0
    /\ email[1] \in WhiteSpace
    /\ email[Len(email)] \in WhiteSpace
    /\ \E k \in 1..Len(email) : email[k] \in UpperChars

\* C6: validateEmail is idempotent on accepted input: when it accepts an
\* email with value v, validating v again gives Success with the same v.
C6_Idempotent ==
    (op = "validateEmail_NeverThrow" /\ isOk(result)) =>
        validateEmail_NeverThrow(result.value) = ok(result.value)

\* validateEmail accepted an email that it had to normalise.
C6_Witness ==
    /\ op = "validateEmail_NeverThrow"
    /\ isOk(result)
    /\ result.value # email

\* C7: validatePassword reports the earliest violated rule only: shorter
\* than 8 gives the "Too short" failure; otherwise no uppercase letter gives
\* "Missing uppercase"; otherwise no digit gives "Missing number"; otherwise
\* Success with the password unchanged.
C7_PasswordRulesInOrder ==
    op = "validatePassword_NeverThrow" =>
        LET short == Len(password) < 8
            upper == \E i \in 1..Len(password) : password[i] \in UpperChars
            digit == \E i \in 1..Len(password) : password[i] \in Digits
        IN  /\ short => result = err(PasswordValidationError(S_TooShort))
            /\ (~short /\ ~upper) =>
                   result = err(PasswordValidationError(S_MissingUppercase))
            /\ (~short /\ upper /\ ~digit) =>
                   result = err(PasswordValidationError(S_MissingNumber))
            /\ (~short /\ upper /\ digit) => result = ok(password)

\* validatePassword was given a password that violates all three rules.
C7_Witness ==
    /\ op = "validatePassword_NeverThrow"
    /\ Len(password) < 8
    /\ \A i \in 1..Len(password) :
           password[i] \notin UpperChars /\ password[i] \notin Digits
    /\ isErr(result)

\* C8: validateAge fails with "Must be 13 or older" below 13, fails with
\* "Invalid age" above 120, and returns Success with the age unchanged for
\* 13 <= age <= 120, both limits included.
C8_AgeRange ==
    op = "validateAge_NeverThrow" =>
        /\ age < 13 => result = err(AgeValidationError(S_Must13))
        /\ age > 120 => result = err(AgeValidationError(S_InvalidAge))
        /\ (13 <= age /\ age <= 120) => result = ok(age)

\* validateAge accepted the upper limit itself.
C8_Witness ==
    /\ op = "validateAge_NeverThrow"
    /\ age = 120
    /\ isOk(result)

\* C9: registerUser_NeverThrow starts the duplicate-email lookup only after
\* createUserPayload has returned Success: a lookup appears among the calls
\* only behind the createUserPayload call and only when its Result is Ok,
\* and for an input that fails synchronous validation no lookup is ever
\* started or awaited.
C9_LookupOnlyAfterValidation ==
    LET lookups == {i \in 1..Len(calls) :
                        calls[i] \in {"findUserByEmail", "checkEmailExists"}}
    IN  /\ lookups # {} =>
               /\ op = "registerUser_NeverThrow"
               /\ payloadResult = createUserPayload(email, password, age).result
               /\ isOk(payloadResult)
               /\ \E j \in 1..Len(calls) :
                      /\ calls[j] = "createUserPayload"
                      /\ \A i \in lookups : j < i
        /\ pc \in {"timer", "resume"} => lookups # {}
        /\ (/\ op = "registerUser_NeverThrow"
            /\ isErr(createUserPayload(email, password, age).result)) =>
               /\ lookups = {}
               /\ pc = "idle"
               /\ dbCheck = Undefined

\* The lookup is in flight.
C9_Witness ==
    /\ op = "registerUser_NeverThrow"
    /\ pc = "timer"
    /\ "findUserByEmail" \in {calls[i] : i \in 1..Len(calls)}

\* C10: once the registration has completed on a valid payload, it has
\* yielded a Result to its caller: a Failure with DuplicateEmailError when
\* the lookup reported the email registered, Success with the payload
\* otherwise.
C10_YieldsResult ==
    (/\ op = "registerUser_NeverThrow"
     /\ pc = "idle"
     /\ isOk(payloadResult)) =>
        /\ "ok" \in DOMAIN result
        /\ isErr(dbCheck) =>
               /\ isErr(result)
               /\ result.error = DuplicateEmailError(payloadResult.value.email)
        /\ isOk(dbCheck) => result = ok(payloadResult.value)

\* C11: validateAll_Collect returns Success exactly when validateEmail and
\* validatePassword of the validation core both succeed on its arguments,
\* and Failure whenever either of them fails.
C11_AgreesWithCoreValidators ==
    op = "validateAll_Collect" =>
        (isOk(result) <=> (/\ isOk(validateEmail_NeverThrow(email))
                           /\ isOk(validatePassword_NeverThrow(password))))

\* C12: on Failure the issue list of validateAll_Collect holds one issue for
\* each check that failed and none for one that passed, the email issue
\* (field "email") before the password issue (field "password"), so two
\* issues when both fail and one when exactly one fails; when both pass the
\* result is Success with the normalized email and the password.
C12_EveryIssueInOrder ==
    op = "validateAll_Collect" =>
        LET re == validateEmail_Collect(email)
            rp == validatePassword_Collect(password)
            expected == (IF isErr(re) THEN <<re.error>> ELSE <<>>)
                            \o (IF isErr(rp) THEN <<rp.error>> ELSE <<>>)
        IN  /\ isErr(result) <=> (isErr(re) \/ isErr(rp))
            /\ isErr(result) =>
                   /\ result.error = expected
                   /\ Len(result.error) = (IF isErr(re) THEN 1 ELSE 0)
                                              + (IF isErr(rp) THEN 1 ELSE 0)
                   /\ isErr(re) => result.error[1].field = "email"
                   /\ isErr(rp) =>
                          result.error[Len(result.error)].field = "password"
            /\ isOk(result) =>
                   result.value = [email |-> trim(toLowerCase(email)),
                                   password |-> password]

\* validateAll_Collect reported the email issue and the password issue.
C12_Witness ==
    /\ op = "validateAll_Collect"
    /\ isErr(result)
    /\ Len(result.error) = 2
    /\ result.error[1].field = "email"
    /\ result.error[2].field = "password"

\* C13: validateWithFallback returns Success "user@default.com" when
\* validateEmail fails with a message containing "Missing @", returns the
\* original Failure unchanged when it fails for another reason, and returns
\* the Success unchanged when it succeeds.
C13_FallbackOnMissingAtOnly ==
    op = "validateWithFallback" =>
        LET r == validateEmail_NeverThrow(email)
        IN  /\ (isErr(r) /\ includes(r.error.message, S_MissingAt)) =>
                   result = ok(S_userDefault)
            /\ (isErr(r) /\ ~includes(r.error.message, S_MissingAt)) =>
                   result = r
            /\ isOk(r) => result = r
            /\ ~includes(email, <<"@">>) => result = ok(S_userDefault)
            /\ (includes(email, <<"@">>) /\ ~includes(email, <<".">>)) =>
                   (isErr(result) /\ includes(result.error.message, S_domain))

\* validateWithFallback passed a "Missing domain" failure through.
C13_Witness ==
    /\ op = "validateWithFallback"
    /\ isErr(result)
    /\ includes(result.error.message, S_domain)

\* C14: validateWithConditionalHandling returns Success "user@gmail.com"
\* when validateEmail fails with a message containing "domain", returns the
\* original error unchanged when it fails with another message, and returns
\* the Success unchanged when it succeeds.
C14_SuggestOnDomainOnly ==
    op = "validateWithConditionalHandling" =>
        LET r == validateEmail_NeverThrow(email)
        IN  /\ (isErr(r) /\ includes(r.error.message, S_domain)) =>
                   result = ok(S_userGmail)
            /\ (isErr(r) /\ ~includes(r.error.message, S_domain)) =>
                   result = r
            /\ isOk(r) => result = r
            /\ ~includes(email, <<"@">>) =>
                   (isErr(result) /\ includes(result.error.message, S_MissingAt))
            /\ (includes(email, <<"@">>) /\ ~includes(email, <<".">>)) =>
                   result = ok(S_userGmail)

\* validateWithConditionalHandling passed a "Missing @ symbol" failure
\* through.
C14_Witness ==
    /\ op = "validateWithConditionalHandling"
    /\ isErr(result)
    /\ includes(result.error.message, S_MissingAt)

\* C15: in createUserPayload and processUserInput, whenever the receiver of
\* an andThen step is a Failure, no callback of that step or of a later one
\* is invoked, no validator is called inside them, and the chain returns
\* the very error of that Failure: with an invalid email no callback runs
\* at all; with a valid email and an invalid password only the first
\* andThen callback runs and validateAge is not called after it.
C15_AndThenShortCircuit ==
    op \in {"createUserPayload", "processUserInput"} =>
        LET re == validateEmail_NeverThrow(email)
            rp == validatePassword_NeverThrow(password)
            andThens == {i \in 1..Len(calls) : calls[i] = "andThen callback"}
            maps == {i \in 1..Len(calls) : calls[i] = "map callback"}
            eager == IF op = "processUserInput"
                     THEN <<"validateEmail_NeverThrow",
                            "validatePassword_NeverThrow",
                            "validateAge_NeverThrow">>
                     ELSE <<"validateEmail_NeverThrow">>
        IN  /\ isErr(re) =>
                   /\ andThens = {}
                   /\ maps = {}
                   /\ calls = <<op>> \o eager
                   /\ result = re
            /\ (isOk(re) /\ isErr(rp)) =>
                   /\ Cardinality(andThens) = 1
                   /\ maps = {}
                   /\ calls = <<op>> \o eager
                                  \o <<"andThen callback",
                                       "validatePassword_NeverThrow">>
                   /\ result = rp

\* processUserInput evaluated the password and age validators up front, and
\* its chain still short-circuited on the invalid email.
C15_Witness ==
    /\ op = "processUserInput"
    /\ isErr(validateEmail_NeverThrow(email))
    /\ isErr(result)
    /\ "validatePassword_NeverThrow" \in {calls[i] : i \in 1..Len(calls)}

\* C16: validateAndFormatError returns the Success of the validator it wraps,
\* value unchanged, whenever that validator succeeds, and returns a Failure
\* exactly when that validator fails; the error of that Failure is an
\* ApiError with code "VALIDATION_ERROR".
C16_MapErrLeavesSuccessAlone ==
    op = "validateAndFormatError" =>
        LET wrapped == validateEmail_ForApi(email)
        IN  /\ isOk(wrapped) => result = wrapped
            /\ isErr(wrapped) <=> isErr(result)
            /\ isErr(result) =>
                   /\ DOMAIN result.error = {"code", "timestamp"}
                   /\ result.error.code = "VALIDATION_ERROR"
                   /\ result.error.timestamp \in Times

\* An email without '@' came back as an ApiError stamped with the latest
\* clock reading.
C16_Witness ==
    /\ op = "validateAndFormatError"
    /\ ~includes(email, <<"@">>)
    /\ isErr(result)
    /\ result.error = [code |-> "VALIDATION_ERROR", timestamp |-> 1]

\* C17: every function of the Result-based core terminates by returning a
\* Result, an Ok with a value or an Err with an error object, for every
\* input; none of them ends by throwing.
C17_CoreReturnsResult ==
    op \in {"validateEmail_NeverThrow", "validatePassword_NeverThrow",
            "validateAge_NeverThrow", "createUserPayload",
            "validateAll_Collect", "validateWithFallback",
            "validateWithConditionalHandling"} =>
        /\ IsResult(result)
        /\ (~result.ok /\ op # "validateAll_Collect") =>
               DOMAIN result.error = {"name", "message"}

\* The conditional handler met an error it does not handle and handed it
\* back as an Err.
C17_Witness ==
    /\ op = "validateWithConditionalHandling"
    /\ ~includes(email, <<"@">>)
    /\ IsResult(result)
    /\ result = validateEmail_NeverThrow(email)

IsPrefix(s, t) ==
    /\ Len(s) <= Len(t)
    /\ SubSeq(t, 1, Len(s)) = s

\* C18 as stated: a call of any core validation or composition operation
\* (the three validators, createUserPayload, validateAll, withFallback,
\* withConditionalHandling) leaves the console output and the process-wide
\* errorLog unchanged.
C18_NoSideEffect ==
    [][op' \in {"validateEmail_NeverThrow", "validatePassword_NeverThrow",
                "validateAge_NeverThrow", "createUserPayload",
                "validateAll_Collect", "validateWithFallback",
                "validateWithConditionalHandling"} =>
           /\ console' = console
           /\ errorLog' = errorLog]_vars

\* C18: a call of one of the three validators leaves the console output and
\* errorLog unchanged.  A call of a composition operation (createUserPayload,
\* validateAll, withFallback, withConditionalHandling) leaves errorLog
\* unchanged and writes narration to the console: the earlier output is
\* kept and the operation's header line is printed after it, followed by
\* nothing but lines of that call.
C18_OnlyNarration ==
    [][/\ op' \in {"validateEmail_NeverThrow", "validatePassword_NeverThrow",
                   "validateAge_NeverThrow"} =>
              /\ console' = console
              /\ errorLog' = errorLog
       /\ op' \in {"createUserPayload", "validateAll_Collect",
                   "validateWithFallback",
                   "validateWithConditionalHandling"} =>
              /\ errorLog' = errorLog
              /\ IsPrefix(console, console')
              /\ Len(console') > Len(console)
              /\ console'[Len(console) + 1] =
                     CASE op' = "createUserPayload" ->
                              "--- 4.3: Chaining with andThen() ---"
                       [] op' = "validateAll_Collect" ->
                              "--- 5.3: Collect Multiple Errors ---"
                       [] op' = "validateWithFallback" ->
                              "--- 5.6: Error Recovery without Try-Catch ---"
                       [] OTHER ->
                              "--- 5.7: Conditional Handling Based on Error Type ---"]_vars

\* A composition operation was called after a failure had been recorded: it
\* printed behind the earlier output and the log still holds the entry.
C18_Witness ==
    /\ op = "createUserPayload"
    /\ Len(console) = 2
    /\ console[1] = "--- 5.5: Store Errors in Data Structures ---"
    /\ console[2] = "--- 4.3: Chaining with andThen() ---"
    /\ Len(errorLog) = 1

\* C19 as stated: every operation of the module leaves errorLog unchanged or
\* appends entries at its end, so that no entry already in the log is
\* removed, reordered or altered and the length never decreases.
C19_AppendOnly ==
    [][IsPrefix(errorLog, errorLog')]_vars

\* C19: every operation other than runErrorsAsValues leaves errorLog
\* unchanged or appends one entry at its end, and only validateAndRecord
\* appends.  runErrorsAsValues empties the log first: after it the log holds
\* the two entries of its own validateAndRecord calls and nothing of what
\* was there before.
C19_AppendOnlyBetweenResets ==
    [][IF op' = "runErrorsAsValues"
       THEN /\ Len(errorLog') = 2
            /\ \A i \in 1..2 :
                   /\ errorLog'[i].error = EmailValidationError(S_MissingAtSymbol)
                   /\ errorLog'[i].timestamp \in Times
       ELSE /\ IsPrefix(errorLog, errorLog')
            /\ Len(errorLog') <= Len(errorLog) + 1
            /\ errorLog' # errorLog => op' = "validateAndRecord"]_vars

\* runErrorsAsValues was called after validateAndRecord had recorded the
\* missing-domain failure of "@": that entry is gone.
C19_Witness ==
    /\ op = "runErrorsAsValues"
    /\ console[1] = "--- 5.5: Store Errors in Data Structures ---"
    /\ email = <<"@">>
    /\ Len(errorLog) = 2
    /\ \A i \in 1..2 : ~includes(errorLog[i].error.message, S_domain)

\* C20: every validateAndRecord call returns the Result of validateEmail on
\* its email; when that Result is a Failure the call appends one entry
\* holding the returned error at the end of errorLog, and when it is a
\* Success the call leaves errorLog as it was.  So between resets the log
\* holds one entry per failed call, in call order.
C20_RecordsExactlyFailures ==
    [][op' = "validateAndRecord" =>
           LET r == validateEmail_NeverThrow(email')
           IN  /\ result' = r
               /\ IF isErr(r)
                  THEN \E now \in Times :
                           errorLog' = errorLog
                               \o <<[timestamp |-> now, error |-> r.error]>>
                  ELSE errorLog' = errorLog]_vars

\* Two failed calls with different errors, recorded in call order; the last
\* call returned the error of the last entry.
C20_Witness ==
    /\ op = "validateAndRecord"
    /\ Len(errorLog) = 2
    /\ includes(errorLog[1].error.message, S_MissingAt)
    /\ includes(errorLog[2].error.message, S_domain)
    /\ result = err(errorLog[2].error)

\* C22: each exception-based validator throws exactly when the Result-based
\* validator of the same field returns a Failure, what it throws is the
\* error of that Failure (same class, same message), and otherwise it
\* returns the value of the Success.
C22_ThrowsWhereFailureReturned ==
    /\ op = "validateEmail_FP1" =>
           LET r == validateEmail_NeverThrow(email)
           IN  result = IF isErr(r) THEN throw(r.error) ELSE return(r.value)
    /\ op = "validatePassword_FP1" =>
           LET r == validatePassword_NeverThrow(password)
           IN  result = IF isErr(r) THEN throw(r.error) ELSE return(r.value)
    /\ op = "validateAge_FP1" =>
           LET r == validateAge_NeverThrow(age)
           IN  result = IF isErr(r) THEN throw(r.error) ELSE return(r.value)

\* validateAge_FP1 returned the lowest age that validateAge_NeverThrow
\* accepts.
C22_Witness ==
    /\ op = "validateAge_FP1"
    /\ age = MinAge
    /\ result = return(MinAge)
    /\ isOk(validateAge_NeverThrow(age))

\* C24: registerUser_Nested completes without an exception reaching its
\* caller; it calls the password validator once when the email validation
\* threw and not at all when the email is valid; the final handler runs
\* exactly when both the email and the password are invalid; the age
\* validator is never called.
C24_PasswordOnlyAfterEmailThrew ==
    op = "registerUser_Nested" =>
        LET emailThrew == throws(validateEmail_FP1(email))
            passwordThrew == throws(validatePassword_FP1(password))
            at(name) == {i \in 1..Len(calls) : calls[i] = name}
        IN  /\ result = return(Undefined)
            /\ Cardinality(at("validateEmail_FP1")) = 1
            /\ Cardinality(at("validatePassword_FP1")) =
                   IF emailThrew THEN 1 ELSE 0
            /\ at("catch final") # {} <=> (emailThrew /\ passwordThrew)
            /\ Cardinality(at("catch final")) <= 1
            /\ at("validateAge_FP1") = {}

\* The email was invalid and the password valid: the password was validated
\* in the handler of the email error and the final handler did not run,
\* although the age is invalid too.
C24_Witness ==
    /\ op = "registerUser_Nested"
    /\ throws(validateEmail_FP1(email))
    /\ ~throws(validatePassword_FP1(password))
    /\ throws(validateAge_FP1(age))
    /\ calls = <<"registerUser_Nested", "validateEmail_FP1", "catch email",
                 "validatePassword_FP1">>
    /\ console[Len(console)] = "Password OK:"

\* C23: processUserInput, in the modular and in the standalone source,
\* returns the Result that createUserPayload returns for the same email,
\* password and age: the same payload on Success, the same error (that of
\* the first failing validator in email, password, age order) on Failure.
C23_SameResultAsCreateUserPayload ==
    op \in {"processUserInput", "processUserInput_standalone"} =>
        /\ result = createUserPayload(email, password, age).result
        /\ isErr(result) =>
               result.error.name =
                   IF isErr(validateEmail_NeverThrow(email))
                   THEN "EmailValidationError"
                   ELSE IF isErr(validatePassword_NeverThrow(password))
                        THEN "PasswordValidationError"
                        ELSE "AgeValidationError"

\* The standalone pipeline reported the password failure of an input whose
\* age is invalid too.
C23_Witness ==
    /\ op = "processUserInput_standalone"
    /\ isOk(validateEmail_NeverThrow(email))
    /\ isErr(validateAge_NeverThrow(age))
    /\ isErr(result)
    /\ result = validatePassword_NeverThrow(password)

\* C21: in both entry points the registration started in the NeverThrow
\* section has completed before the errors-as-values section starts and
\* before runDemo finishes, and every line the registration prints stands
\* in front of the heading of the errors-as-values section.
C21_RegistrationCompletesFirst ==
    LET headings == {i \in 1..Len(console) :
                         console[i] \in {"=== ERRORS AS VALUES ===",
                                         "SECTION 5: ERRORS AS VALUES"}}
        outcome == {i \in 1..Len(console) :
                        console[i] \in {"Registration failed:",
                                        "All validations passed",
                                        "User payload:",
                                        "Registration successful:"}}
    IN  /\ headings # {} => pc = "idle"
        /\ runDemo.at = "finished" => pc = "idle"
        /\ \A i \in outcome, j \in headings : i < j

====
